---- MODULE Spec2Model ----
(***************************************************************************)
(* PayPal -> Shopify bridge.  The repository holds five variants of the    *)
(* handler POST /api/shopify/order-from-paypal and two variants of the     *)
(* PayPal routes:                                                          *)
(*   "p0"  src/unnamed/part_000:65   reconciling handler (GraphQL)         *)
(*   "sA"  src/server.js:236         validating handler (GraphQL)          *)
(*   "sB"  src/server.js:403         unit_price handler (GraphQL)          *)
(*   "p1R" src/unnamed/part_001:67   REST handler                          *)
(*   "p1G" src/unnamed/part_001:451  validating handler (GraphQL, sendErr) *)
(* Amounts are integers in cents.  One request is followed from its        *)
(* arrival to its response; every await of an external system is a         *)
(* separate step whose reply is chosen by the environment.                 *)
(***************************************************************************)
EXTENDS Integers, Sequences, FiniteSets, TLC

\* ------------------------------------------------------------------ bounds
MaxItems == 3
MaxQty == 3
MaxCents == 2
MaxTime == 3
MaxToken == 2
MaxDraft == 2

\* ------------------------------------------------------ program constants
\* ppTokenCache.exp - 30_000, in units of 30 s
Margin == 1
\* (data.expires_in || 900) * 1000, in units of 30 s
DefaultTtl == 30

\* ------------------------------------------------------- request payloads
\* A JSON amount: absent, a non-numeric string, or a number of cents.
Absent == [k |-> "absent", v |-> 0]
Text == [k |-> "text", v |-> 0]
Num(c) == [k |-> "num", v |-> c]

\* quantity 0 stands for an omitted or falsy quantity
QtySet == (-1)..MaxQty
TotalSet == {Absent, Text} \cup {Num(c) : c \in {-500, 0, 1000, 1001} \cup 1..MaxCents}
ShipSet == {Absent, Num(-1000), Num(0), Num(300), Num(1500)}
LabelSet == {"absent", "empty", "text"}
AddressSet == {"absent", "partial", "full", "fullEmail"}

ItemSeqs == UNION {[1..n -> QtySet] : n \in 0..MaxItems}

\* li.price / li.unit_price, the unit price hint of an item, in tenths of a cent
HintSet == {Absent, Num(3000), Num(7000), Num(2504)}
NoHints(it) == [i \in 1..Len(it) |-> Absent]

\* carts: q[i] is line_items[i].quantity, h[i] the hint of line_items[i].
\* Every quantity sequence without hints, and the one- and two-line carts of
\* quantities 1 and 2 in which some item carries a hint.
Carts ==
    {[q |-> it, h |-> NoHints(it)] : it \in ItemSeqs}
    \cup UNION {{[q |-> qs, h |-> hs] :
                    qs \in [1..n -> {1, 2}],
                    hs \in [1..n -> HintSet] \ {[i \in 1..n |-> Absent]}} :
                 n \in 1..2}

\* a cart one line longer than MaxItems: quantity 2 on every line but the last
LongCarts ==
    {[q |-> [i \in 1..(MaxItems + 1) |-> IF i <= MaxItems THEN 2 ELSE 1],
      h |-> [i \in 1..(MaxItems + 1) |-> Absent]]}

NoReq == [line_items |-> <<>>, hints |-> <<>>, total_paid |-> Absent,
          shipping_price |-> Absent, paypalCaptureId |-> FALSE,
          shipping_label |-> "absent", address |-> "absent",
          value |-> FALSE, paypalOrderId |-> FALSE]

\* ------------------------------------------------------------------ state
VARIABLES
    pc,               \* position of the request handler
    route,            \* which handler serves the request
    req,              \* req.body
    paidAmount,       \* part_000: let paidAmount
    itemsTotalTarget, \* part_000: const itemsTotalTarget
    lines,            \* part_000: per item quantity, lineAmount, unitPrice
    input,            \* the draft order input handed to draftOrderCreate
    calls,            \* external calls issued for the request, with outcomes
    resp,             \* the response sent
    nresp,            \* number of responses sent for the request
    creds,            \* PAYPAL_CLIENT_ID && PAYPAL_CLIENT_SECRET configured
    ppTokenCache,     \* part_001: let ppTokenCache
    now,              \* Date.now(), in units of 30 s
    access            \* the PayPal access token the handler holds (0: none)

vars == <<pc, route, req, paidAmount, itemsTotalTarget, lines, input, calls,
          resp, nresp, creds, ppTokenCache, now, access>>

NoResp == [status |-> 0, ok |-> FALSE, error |-> "", order |-> "none"]
Res(st, okv, err, ord) == [status |-> st, ok |-> okv, error |-> err, order |-> ord]
NoInput == [shippingLine |-> Absent, shippingTitle |-> "none", email |-> "none",
            addressEmail |-> FALSE]

Null == [k |-> "null", v |-> 0]
NaN == [k |-> "nan", v |-> 0]

Init ==
    /\ pc = "idle"
    /\ route = "none"
    /\ req = NoReq
    /\ paidAmount = Null
    /\ itemsTotalTarget = 0
    /\ lines = <<>>
    /\ input = NoInput
    /\ calls = <<>>
    /\ resp = NoResp
    /\ nresp = 0
    /\ creds \in BOOLEAN
    /\ ppTokenCache = [token |-> 0, exp |-> 0]
    /\ now = 0
    /\ access = 0

\* ---------------------------------------------------------------- helpers
Abs(x) == IF x < 0 THEN -x ELSE x
Sgn(x) == IF x < 0 THEN -1 ELSE 1

\* +(n / d).toFixed(2) on amounts in cents: nearest cent.  An exact half
\* cent is decided by the binary value of the double (0.005 prints "0.01",
\* 0.015 prints "0.01"), so its direction is an input: up = away from zero.
Round2(n, d, up) ==
    LET a == Abs(n)
        b == Abs(d)
        q == a \div b
        r == a % b
        m == IF 2 * r > b \/ (2 * r = b /\ up) THEN q + 1 ELSE q
    IN  Sgn(n) * Sgn(d) * m

IsTie(n, d) == 2 * (Abs(n) % Abs(d)) = Abs(d)

RECURSIVE SumSeq(_)
SumSeq(s) == IF s = <<>> THEN 0 ELSE s[1] + SumSeq(Tail(s))

\* it.quantity || 1
Qty(q) == IF q = 0 THEN 1 ELSE q

\* the number of lines instead of the number of units
TotalUnitsCountsLines(items) == Len(items)

\* line_items.reduce((sum, it) => sum + (it.quantity || 1), 0)
TotalUnits(items) == SumSeq([i \in 1..Len(items) |-> Qty(items[i])])


\* --------------------------------------------------- response / call steps
Finish(r) ==
    /\ pc' = "done"
    /\ resp' = r
    /\ nresp' = nresp + 1

\* a call in flight; id and paymentPending are the variables of the
\* completion mutation, and on a creation call id is the id of the draft
\* order in the reply (0 while there is none)
Call(op) == [op |-> op, out |-> "pending", id |-> 0, paymentPending |-> "unset"]
Replied(out) == [calls EXCEPT ![Len(calls)].out = out]

\* the creation call returns a draft order; DraftOrder.id is a non-null ID
DraftIds == 1..MaxDraft
RepliedDraft(d) == [calls EXCEPT ![Len(calls)].out = "ok", ![Len(calls)].id = d]

\* the completion is issued with a fixed id, not the one creation returned
CompleteCallFixedId(draftId, pp) ==
    [op |-> "draftOrderComplete", out |-> "pending", id |-> 1,
     paymentPending |-> pp]

\* draftOrderComplete(id: draftId, paymentPending: pp); pp is "unset" where
\* the handler does not pass the variable
CompleteCall(draftId, pp) ==
    [op |-> "draftOrderComplete", out |-> "pending", id |-> draftId,
     paymentPending |-> pp]

\* ------------------------------------- part_000: the reconciling handler
\* let paidAmount = total_paid ? parseFloat(total_paid) : null
ParseTotal(t) ==
    IF t.k = "absent" \/ (t.k = "num" /\ t.v = 0) THEN Null
    ELSE IF t.k = "text" THEN NaN
    ELSE t

\* !paidAmount || isNaN(paidAmount)
Unusable(p) == p.k # "num" \/ p.v = 0

\* parseFloat(shipping_price || 0) || 0
ShipPrice(s) == IF s.k = "num" THEN s.v ELSE 0

\* indices of the non-last items whose share of the target is an exact half cent
LineTies(items, target) ==
    {i \in 1..(Len(items) - 1) : IsTie(target * Qty(items[i]), TotalUnits(items))}

\* every item, the last one too, gets its rounded proportional share
LineAmountsNoResidual(items, target, upL) ==
    [i \in 1..Len(items) |->
        Round2(target * Qty(items[i]), TotalUnits(items), i \in upL)]

\* lineAmount of every item: non-last items rounded independently and added
\* to running, the last item takes itemsTotalTarget - running
LineAmounts(items, target, upL) ==
    LET n == Len(items)
        early == [i \in 1..(n - 1) |->
                    Round2(target * Qty(items[i]), TotalUnits(items), i \in upL)]
    IN  Append(early, target - SumSeq(early))

UnitTies(items, la) == {i \in 1..Len(items) : IsTie(la[i], Qty(items[i]))}

\* gqlLineItems, with the lineAmount each unit price was derived from
GqlLineItems(items, target, upL, upU) ==
    LET la == LineAmounts(items, target, upL)
    IN  [i \in 1..Len(items) |->
            [quantity |-> Qty(items[i]),
             lineAmount |-> la[i],
             unitPrice |-> Round2(la[i], Qty(items[i]), i \in upU)]]

\* const input = {...}; shippingAddress never carries the email
P0Input(r, shipPrice) ==
    [shippingLine |-> IF shipPrice > 0 /\ r.shipping_label = "text"
                      THEN Num(shipPrice) ELSE Absent,
     shippingTitle |-> IF shipPrice > 0 /\ r.shipping_label = "text"
                       THEN "label" ELSE "none",
     email |-> "none",
     addressEmail |-> FALSE]

\* the check compares the captured total alone, forgetting the shipping charge
ItemsTotalNegativeNoShipping(paid, shipPrice) == paid < 0

\* itemsTotalTarget < 0, with itemsTotalTarget = +(paidAmount - shipPrice).toFixed(2)
ItemsTotalNegative(paid, shipPrice) == paid - shipPrice < 0

\* part_000 lines 102-188: from the paidAmount check to draftOrderCreate
P0Continue(r, paid, cs) ==
    /\ paidAmount' = paid
    /\ IF Unusable(paid)
       THEN /\ Finish(Res(400, FALSE, "INVALID_TOTAL_PAID", "none"))
            /\ calls' = cs
            /\ UNCHANGED <<itemsTotalTarget, lines, input>>
       ELSE LET shipPrice == ShipPrice(r.shipping_price)
                target == paid.v - shipPrice
            IN  /\ itemsTotalTarget' = target
                /\ IF ItemsTotalNegative(paid.v, shipPrice)
                   THEN /\ Finish(Res(400, FALSE, "NEGATIVE_ITEMS_TOTAL", "none"))
                        /\ calls' = cs
                        /\ UNCHANGED <<lines, input>>
                   ELSE IF TotalUnits(r.line_items) <= 0
                   THEN /\ Finish(Res(400, FALSE, "INVALID_QUANTITIES", "none"))
                        /\ calls' = cs
                        /\ UNCHANGED <<lines, input>>
                   ELSE \E upL \in SUBSET LineTies(r.line_items, target) :
                        \E upU \in SUBSET UnitTies(r.line_items,
                                       LineAmounts(r.line_items, target, upL)) :
                          /\ lines' = GqlLineItems(r.line_items, target, upL, upU)
                          /\ input' = P0Input(r, shipPrice)
                          /\ calls' = Append(cs, Call("draftOrderCreate"))
                          /\ pc' = "create"
                          /\ UNCHANGED <<resp, nresp>>

P0Payloads ==
    {[NoReq EXCEPT !.line_items = c.q, !.hints = c.h, !.total_paid = t,
                   !.shipping_price = s, !.paypalCaptureId = id,
                   !.shipping_label = l, !.address = a] :
        c \in Carts \cup LongCarts, t \in TotalSet, s \in ShipSet, id \in BOOLEAN,
        l \in {"absent", "text"}, a \in {"fullEmail"}}

\* part_000 lines 65-100: the request arrives, up to the first await
P0Receive ==
    /\ pc = "idle"
    /\ \E r \in P0Payloads :
        /\ req' = r
        /\ route' = "p0"
        /\ IF r.line_items = <<>>
           THEN /\ Finish(Res(400, FALSE, "NO_LINE_ITEMS", "none"))
                /\ UNCHANGED <<paidAmount, itemsTotalTarget, lines, input, calls>>
           ELSE IF Unusable(ParseTotal(r.total_paid)) /\ r.paypalCaptureId /\ creds
           THEN /\ paidAmount' = ParseTotal(r.total_paid)
                /\ calls' = <<Call("captureLookup")>>
                /\ pc' = "lookup"
                /\ UNCHANGED <<itemsTotalTarget, lines, input, resp, nresp>>
           ELSE P0Continue(r, ParseTotal(r.total_paid), <<>>)
    /\ UNCHANGED <<creds, ppTokenCache, now, access>>

\* replies of GET /v2/payments/captures/{id}: the fetch throws, answers with a
\* non-2xx status, or answers 200 with amount.value
CaptureValues == {Absent, Text, Num(0), Num(-500), Num(1000)}

\* part_000 lines 90-100: the capture lookup returns
P0CaptureReply ==
    /\ pc = "lookup" /\ route = "p0"
    /\ \/ P0Continue(req, paidAmount, Replied("throw"))
       \/ P0Continue(req, paidAmount, Replied("notOk"))
       \/ \E v \in CaptureValues :
            \* capJson.amount.value is a string: "0" is truthy, absent is not
            P0Continue(req,
                       IF v.k = "absent" THEN paidAmount
                       ELSE IF v.k = "text" THEN NaN ELSE v,
                       Replied("ok"))
    /\ UNCHANGED <<route, req, creds, ppTokenCache, now, access>>

\* shopifyGraphQL(createMutation) returns (part_000 lines 188-211)
P0CreateReply ==
    /\ pc = "create" /\ route = "p0"
    /\ \/ \* fetch throws, !res.ok or data.errors: SHOPIFY_GRAPHQL_ERROR is caught
          /\ calls' = Replied("throw")
          /\ Finish(Res(500, FALSE, "SERVER_ERROR", "none"))
       \/ /\ calls' = Replied("userErrors")
          /\ Finish(Res(500, FALSE, "DRAFT_ORDER_USER_ERRORS", "none"))
       \/ \* draftOrder null without userErrors: draftRes.draftOrder.id throws
          /\ calls' = Replied("noDraft")
          /\ Finish(Res(500, FALSE, "SERVER_ERROR", "none"))
       \/ /\ \E d \in DraftIds :
                calls' = Append(RepliedDraft(d), CompleteCall(d, "false"))
          /\ pc' = "complete"
          /\ UNCHANGED <<resp, nresp>>
    /\ UNCHANGED <<route, req, paidAmount, itemsTotalTarget, lines, input,
                   creds, ppTokenCache, now, access>>

\* shopifyGraphQL(completeMutation) returns (part_000 lines 208-225)
P0CompleteReply ==
    /\ pc = "complete" /\ route = "p0"
    /\ \/ /\ calls' = Replied("throw")
          /\ Finish(Res(500, FALSE, "SERVER_ERROR", "none"))
       \/ /\ calls' = Replied("userErrors")
          /\ Finish(Res(500, FALSE, "COMPLETE_USER_ERRORS", "none"))
       \/ \* order null without userErrors: res.json({ ok: true, order: null })
          /\ calls' = Replied("noOrder")
          /\ Finish(Res(200, TRUE, "", "null"))
       \/ /\ calls' = Replied("ok")
          /\ Finish(Res(200, TRUE, "", "order"))
    /\ UNCHANGED <<route, req, paidAmount, itemsTotalTarget, lines, input,
                   creds, ppTokenCache, now, access>>

\* what a reply step leaves alone
KeepRequest ==
    UNCHANGED <<route, req, paidAmount, itemsTotalTarget, lines, input,
                creds, ppTokenCache, now, access>>

\* payloads of the handlers that do not read total_paid
PlainPayloads ==
    {[NoReq EXCEPT !.line_items = c.q, !.hints = c.h, !.shipping_price = s,
                   !.shipping_label = l, !.address = a] :
        c \in Carts, s \in ShipSet, l \in LabelSet, a \in AddressSet}

\* shipping_label || "Shipping"
TitleOf(r) == IF r.shipping_label = "text" THEN "label" ELSE "default"

\* x.toFixed(2) of a price in tenths of a cent, kept in tenths of a cent
ToFixed2(h, up) == Num(10 * Round2(h.v, 10, up))

\* the items whose hint lies exactly on a half cent
HintTies(hints) ==
    {i \in 1..Len(hints) : hints[i].k = "num" /\ IsTie(hints[i].v, 10)}

\* A[k] is set for all of firstName, lastName, address1, city, zip, country
AddressComplete(a) == a \in {"full", "fullEmail"}

\* --------------------------- server.js:236: the validating handler (GraphQL)
\* errs.length: one entry per missing required field
SAInvalid(r) ==
    \/ r.line_items = <<>>
    \/ ~AddressComplete(r.address)
    \/ r.shipping_label # "text"          \* !b.shipping_label
    \/ r.shipping_price.k = "absent"      \* b.shipping_price == null

\* lineItems: parseInt(li.quantity, 10) (NaN for an omitted quantity, shown as
\* 0), and li.price ? String(li.price) : null, the hint as it was sent
ParsedItems(items, hints) ==
    [i \in 1..Len(items) |->
        [quantity |-> items[i],
         price |-> IF hints[i].k = "text" \/ (hints[i].k = "num" /\ hints[i].v # 0)
                   THEN hints[i] ELSE Absent]]

\* draftInput of server.js:265 and part_001:471
ValidatingInput(r) ==
    [shippingLine |-> r.shipping_price,
     shippingTitle |-> IF r.shipping_price = Absent THEN "none" ELSE TitleOf(r),
     email |-> IF r.address = "fullEmail" THEN "address" ELSE "none",
     addressEmail |-> FALSE]

SAReceive ==
    /\ pc = "idle"
    /\ \E r \in PlainPayloads :
        /\ req' = r
        /\ route' = "sA"
        /\ IF SAInvalid(r)
           THEN /\ Finish(Res(400, FALSE, "Invalid payload", "none"))
                /\ UNCHANGED <<lines, input, calls>>
           ELSE /\ lines' = ParsedItems(r.line_items, r.hints)
                /\ input' = ValidatingInput(r)
                /\ calls' = <<Call("draftOrderCreate")>>
                /\ pc' = "create"
                /\ UNCHANGED <<resp, nresp>>
    /\ UNCHANGED <<paidAmount, itemsTotalTarget, creds, ppTokenCache, now, access>>

SACreateReply ==
    /\ pc = "create" /\ route = "sA"
    /\ \/ /\ calls' = Replied("throw")
          /\ Finish(Res(500, FALSE, "e.message", "none"))
       \/ /\ calls' = Replied("userErrors")
          /\ Finish(Res(400, FALSE, "Shopify user errors", "none"))
       \/ /\ calls' = Replied("noDraft")
          /\ Finish(Res(400, FALSE, "Failed to create draft order", "none"))
       \/ /\ \E d \in DraftIds :
                calls' = Append(RepliedDraft(d), CompleteCall(d, "unset"))
          /\ pc' = "complete"
          /\ UNCHANGED <<resp, nresp>>
    /\ KeepRequest

SACompleteReply ==
    /\ pc = "complete" /\ route = "sA"
    /\ \/ /\ calls' = Replied("throw")
          /\ Finish(Res(500, FALSE, "e.message", "none"))
       \/ /\ calls' = Replied("userErrors")
          /\ Finish(Res(400, FALSE, "Shopify user errors", "none"))
       \/ /\ calls' = Replied("noOrder")
          /\ Finish(Res(400, FALSE, "Unable to complete draft order", "none"))
       \/ /\ calls' = Replied("ok")
          /\ Finish(Res(200, TRUE, "", "order"))
    /\ KeepRequest

\* ------------------------- part_001:451: the validating handler with sendErr
P1GInvalid(r) ==
    \/ r.line_items = <<>>
    \/ ~AddressComplete(r.address)
    \/ r.shipping_label = "absent"        \* b.shipping_label == null
    \/ r.shipping_price.k = "absent"

P1GReceive ==
    /\ pc = "idle"
    /\ \E r \in PlainPayloads :
        /\ req' = r
        /\ route' = "p1G"
        /\ IF P1GInvalid(r)
           THEN /\ Finish(Res(400, FALSE, "Invalid payload", "none"))
                /\ UNCHANGED <<lines, input, calls>>
           ELSE /\ lines' = ParsedItems(r.line_items, r.hints)
                /\ input' = ValidatingInput(r)
                /\ calls' = <<Call("draftOrderCreate")>>
                /\ pc' = "create"
                /\ UNCHANGED <<resp, nresp>>
    /\ UNCHANGED <<paidAmount, itemsTotalTarget, creds, ppTokenCache, now, access>>

P1GCreateReply ==
    /\ pc = "create" /\ route = "p1G"
    /\ \/ /\ calls' = Replied("throw")
          /\ Finish(Res(500, FALSE, "e.message", "none"))
       \/ /\ calls' = Replied("userErrors")
          /\ Finish(Res(400, FALSE, "Shopify userErrors (create)", "none"))
       \/ /\ calls' = Replied("noDraft")
          /\ Finish(Res(400, FALSE, "Failed to create draft order", "none"))
       \/ /\ \E d \in DraftIds :
                calls' = Append(RepliedDraft(d), CompleteCall(d, "unset"))
          /\ pc' = "complete"
          /\ UNCHANGED <<resp, nresp>>
    /\ KeepRequest

P1GCompleteReply ==
    /\ pc = "complete" /\ route = "p1G"
    /\ \/ /\ calls' = Replied("throw")
          /\ Finish(Res(500, FALSE, "e.message", "none"))
       \/ /\ calls' = Replied("userErrors")
          /\ Finish(Res(400, FALSE, "Shopify userErrors (complete)", "none"))
       \/ /\ calls' = Replied("noOrder")
          /\ Finish(Res(400, FALSE, "Unable to complete draft order", "none"))
       \/ /\ calls' = Replied("ok")
          /\ Finish(Res(200, TRUE, "", "order"))
    /\ KeepRequest

\* ------------------------------ server.js:403: the unit_price handler
\* the unit price is sent as it came, without toFixed(2)
SBItemsUnrounded(items, hints, up) ==
    [i \in 1..Len(items) |->
        [quantity |-> Qty(items[i]),
         price |-> IF hints[i].k = "num" THEN hints[i] ELSE Absent]]

\* gqlLineItems: parseInt(li.quantity, 10) || 1, and originalUnitPrice
\* base.toFixed(2) when parseFloat(li.unit_price) is a number
SBItems(items, hints, up) ==
    [i \in 1..Len(items) |->
        [quantity |-> Qty(items[i]),
         price |-> IF hints[i].k = "num" THEN ToFixed2(hints[i], i \in up)
                   ELSE Absent]]

\* shippingLine only when parseFloat(shipping_price || '0') || 0 is > 0
SBInput(r) ==
    [shippingLine |-> IF ShipPrice(r.shipping_price) > 0
                      THEN Num(ShipPrice(r.shipping_price)) ELSE Absent,
     shippingTitle |-> IF ShipPrice(r.shipping_price) > 0 THEN TitleOf(r) ELSE "none",
     email |-> IF r.address = "fullEmail" THEN "address" ELSE "none",
     addressEmail |-> FALSE]

SBReceive ==
    /\ pc = "idle"
    /\ \E r \in PlainPayloads :
        /\ req' = r
        /\ route' = "sB"
        /\ IF r.line_items = <<>>
           THEN /\ Finish(Res(400, FALSE, "Missing line_items", "none"))
                /\ UNCHANGED <<lines, input, calls>>
           ELSE /\ \E up \in SUBSET HintTies(r.hints) :
                     lines' = SBItems(r.line_items, r.hints, up)
                /\ input' = SBInput(r)
                /\ calls' = <<Call("draftOrderCreate")>>
                /\ pc' = "create"
                /\ UNCHANGED <<resp, nresp>>
    /\ UNCHANGED <<paidAmount, itemsTotalTarget, creds, ppTokenCache, now, access>>

SBCreateReply ==
    /\ pc = "create" /\ route = "sB"
    /\ \/ /\ calls' = Replied("throw")
          /\ Finish(Res(500, FALSE, "Server error", "none"))
       \/ /\ calls' = Replied("userErrors")
          /\ Finish(Res(400, FALSE, "draftOrderCreate", "none"))
       \/ \* draftResult.draftOrder.id on a null draftOrder throws
          /\ calls' = Replied("noDraft")
          /\ Finish(Res(500, FALSE, "Server error", "none"))
       \/ /\ \E d \in DraftIds :
                calls' = Append(RepliedDraft(d), CompleteCall(d, "true"))
          /\ pc' = "complete"
          /\ UNCHANGED <<resp, nresp>>
    /\ KeepRequest

SBCompleteReply ==
    /\ pc = "complete" /\ route = "sB"
    /\ \/ /\ calls' = Replied("throw")
          /\ Finish(Res(500, FALSE, "Server error", "none"))
       \/ /\ calls' = Replied("userErrors")
          /\ Finish(Res(400, FALSE, "draftOrderComplete", "none"))
       \/ \* order null without userErrors: ok: true, order: null
          /\ calls' = Replied("noOrder")
          /\ Finish(Res(200, TRUE, "", "null"))
       \/ /\ calls' = Replied("ok")
          /\ Finish(Res(200, TRUE, "", "order"))
    /\ KeepRequest

\* ------------------------------------ part_001:67: the REST handler
\* without the li.price != null test, Number(undefined) is NaN but Number(null)
\* is 0: an item without a price is sent with price "0.00"
P1RItemsNullPrice(items, hints, up) ==
    [i \in 1..Len(items) |->
        [quantity |-> Qty(items[i]),
         price |-> IF hints[i].k = "num" THEN ToFixed2(hints[i], i \in up)
                   ELSE Num(0)]]

\* draftLineItems: li.quantity || 1, and price p.toFixed(2) when
\* Number(li.price) is a number
P1RItems(items, hints, up) ==
    [i \in 1..Len(items) |->
        [quantity |-> Qty(items[i]),
         price |-> IF hints[i].k = "num" THEN ToFixed2(hints[i], i \in up)
                   ELSE Absent]]

\* draft_order: email falls back to DEFAULT_ORDER_EMAIL
P1RInput(r) ==
    [shippingLine |-> IF r.shipping_price.k = "num" /\ r.shipping_price.v > 0
                      THEN r.shipping_price ELSE Absent,
     shippingTitle |-> IF r.shipping_price.k = "num" /\ r.shipping_price.v > 0
                       THEN TitleOf(r) ELSE "none",
     email |-> IF r.address = "fullEmail" THEN "address" ELSE "default",
     addressEmail |-> FALSE]

P1RReceive ==
    /\ pc = "idle"
    /\ \E r \in PlainPayloads :
        /\ req' = r
        /\ route' = "p1R"
        /\ IF r.line_items = <<>>
           THEN /\ Finish(Res(400, FALSE, "Missing line_items", "none"))
                /\ UNCHANGED <<lines, input, calls>>
           ELSE /\ \E up \in SUBSET HintTies(r.hints) :
                     lines' = P1RItems(r.line_items, r.hints, up)
                /\ input' = P1RInput(r)
                /\ calls' = <<Call("draftOrderCreate")>>
                /\ pc' = "create"
                /\ UNCHANGED <<resp, nresp>>
    /\ UNCHANGED <<paidAmount, itemsTotalTarget, creds, ppTokenCache, now, access>>

\* shopifyRequest throws on every non-2xx status, REST validation errors included
P1RCreateReply ==
    /\ pc = "create" /\ route = "p1R"
    /\ \/ /\ calls' = Replied("throw")
          /\ Finish(Res(500, FALSE, "Shopify order creation failed", "none"))
       \/ \* no draft_order.id: throw new Error('... invalid response')
          /\ calls' = Replied("noDraft")
          /\ Finish(Res(500, FALSE, "Shopify order creation failed", "none"))
       \/ /\ \E d \in DraftIds :
                calls' = Append(RepliedDraft(d), CompleteCall(d, "false"))
          /\ pc' = "complete"
          /\ UNCHANGED <<resp, nresp>>
    /\ KeepRequest

P1RCompleteReply ==
    /\ pc = "complete" /\ route = "p1R"
    /\ \/ /\ calls' = Replied("throw")
          /\ Finish(Res(500, FALSE, "Shopify order creation failed", "none"))
       \/ \* const order = completed.order || completed: id is undefined
          /\ calls' = Replied("noOrder")
          /\ Finish(Res(200, TRUE, "", "noId"))
       \/ /\ calls' = Replied("ok")
          /\ Finish(Res(200, TRUE, "", "order"))
    /\ KeepRequest

\* the response has been sent; the request's value objects are discarded
Discard ==
    /\ pc = "done"
    /\ pc' = "idle"
    /\ route' = "none"
    /\ req' = NoReq
    /\ paidAmount' = Null
    /\ itemsTotalTarget' = 0
    /\ lines' = <<>>
    /\ input' = NoInput
    /\ calls' = <<>>
    /\ resp' = NoResp
    /\ nresp' = 0
    /\ access' = 0
    /\ UNCHANGED <<creds, ppTokenCache, now>>

\* =========================================================== PayPal routes
\* HTTP statuses a PayPal endpoint answers with; res.ok is status in 200..299
HttpStatuses == {200, 201, 400, 401, 422, 500, 503}
Ok(st) == st \in 200..299

KeepOrderState == UNCHANGED <<paidAmount, itemsTotalTarget, lines, input, creds>>

\* ------------------------------------------------ server.js: no token cache
\* paypalAccessToken() as it would be if server.js read the token cache too
SPaypalAccessTokenCached ==
    IF ppTokenCache.token # 0 /\ now < ppTokenCache.exp - Margin
    THEN /\ access' = ppTokenCache.token
         /\ calls' = <<Call(IF route' = "sTok" THEN "generate-token"
                            ELSE IF route' = "sCo" THEN "orders" ELSE "capture")>>
         /\ pc' = "api"
         /\ UNCHANGED <<resp, nresp, ppTokenCache>>
    ELSE /\ calls' = <<Call("oauth")>>
         /\ pc' = "oauth"
         /\ UNCHANGED <<resp, nresp, ppTokenCache, access>>

\* server.js paypalAccessToken(): every call posts to /v1/oauth2/token
SPaypalAccessToken ==
    /\ calls' = <<Call("oauth")>>
    /\ pc' = "oauth"
    /\ UNCHANGED <<resp, nresp, ppTokenCache, access>>

\* POST /api/paypal/client-token
SClientToken ==
    /\ pc = "idle"
    /\ req' = NoReq
    /\ route' = "sTok"
    /\ SPaypalAccessToken
    /\ KeepOrderState /\ UNCHANGED now

\* POST /api/paypal/create-order
SCreateOrder ==
    /\ pc = "idle"
    /\ \E v \in BOOLEAN :
        /\ req' = [NoReq EXCEPT !.value = v]
        /\ route' = "sCo"
        /\ IF ~v
           THEN /\ Finish(Res(400, FALSE, "Missing amount value", "none"))
                /\ UNCHANGED <<calls, ppTokenCache, access>>
           ELSE SPaypalAccessToken
    /\ KeepOrderState /\ UNCHANGED now

\* POST /api/paypal/capture
SCapture ==
    /\ pc = "idle"
    /\ \E v \in BOOLEAN :
        /\ req' = [NoReq EXCEPT !.paypalOrderId = v]
        /\ route' = "sCap"
        /\ IF ~v
           THEN /\ Finish(Res(400, FALSE, "Missing paypalOrderId", "none"))
                /\ UNCHANGED <<calls, ppTokenCache, access>>
           ELSE SPaypalAccessToken
    /\ KeepOrderState /\ UNCHANGED now

\* the call each route makes with the token
ApiOf(rt) ==
    IF rt \in {"sTok", "eTok"} THEN "generate-token"
    ELSE IF rt \in {"sCo", "eCo"} THEN "orders"
    ELSE "capture"

\* server.js paypalAccessToken() after await: throws unless res.ok
SOAuthReply ==
    /\ pc = "oauth" /\ route \in {"sTok", "sCo", "sCap"}
    /\ \/ /\ calls' = Replied("throw")
          /\ Finish(Res(500, FALSE, "e.message", "none"))
          /\ UNCHANGED access
       \/ /\ calls' = Replied("notOk")
          /\ Finish(Res(500, FALSE, "e.message", "none"))
          /\ UNCHANGED access
       \/ \E t \in 0..MaxToken :
          /\ access' = t
          /\ calls' = Append(Replied("ok"), Call(ApiOf(route)))
          /\ pc' = "api"
          /\ UNCHANGED <<resp, nresp>>
    /\ KeepOrderState /\ UNCHANGED <<route, req, ppTokenCache, now>>

\* server.js:113-130: generate-token returns
SClientTokenReply ==
    /\ pc = "api" /\ route = "sTok"
    /\ \/ /\ calls' = Replied("throw")
          /\ Finish(Res(500, FALSE, "e.message", "none"))
       \/ \E st \in HttpStatuses, hasToken \in BOOLEAN :
          /\ calls' = Replied(IF Ok(st) /\ hasToken THEN "ok" ELSE "notOk")
          /\ IF ~Ok(st) \/ ~hasToken
             THEN Finish(Res(400, FALSE, "Failed to generate client token", "none"))
             ELSE Finish(Res(200, TRUE, "", "none"))
    /\ KeepOrderState /\ UNCHANGED <<route, req, ppTokenCache, now, access>>

\* server.js:140-161: /v2/checkout/orders returns
SCreateOrderReply ==
    /\ pc = "api" /\ route = "sCo"
    /\ \/ /\ calls' = Replied("throw")
          /\ Finish(Res(500, FALSE, "e.message", "none"))
       \/ \E st \in HttpStatuses :
          /\ calls' = Replied(IF Ok(st) THEN "ok" ELSE "notOk")
          /\ IF ~Ok(st)
             THEN Finish(Res(st, FALSE, "PayPal create order failed", "none"))
             ELSE Finish(Res(200, TRUE, "", "none"))
    /\ KeepOrderState /\ UNCHANGED <<route, req, ppTokenCache, now, access>>

\* server.js:172-233: the capture call returns
SCaptureReply ==
    /\ pc = "api" /\ route = "sCap"
    /\ \/ /\ calls' = Replied("throw")
          /\ Finish(Res(500, FALSE, "e.message", "none"))
       \/ \E st \in HttpStatuses, completed \in BOOLEAN :
          /\ calls' = Replied(IF Ok(st) /\ completed THEN "ok" ELSE "notOk")
          /\ IF ~Ok(st)
             THEN Finish(Res(400, FALSE, "PayPal capture failed", "none"))
             ELSE IF ~completed
             THEN Finish(Res(400, FALSE, "Unexpected PayPal status", "none"))
             ELSE Finish(Res(200, TRUE, "", "none"))
    /\ KeepOrderState /\ UNCHANGED <<route, req, ppTokenCache, now, access>>

\* ------------------------------------------- part_001: with ppTokenCache
\* the cached token is used until its recorded expiry, without the margin
EPaypalAccessTokenNoMargin(rt) ==
    IF ppTokenCache.token # 0 /\ now < ppTokenCache.exp
    THEN /\ access' = ppTokenCache.token
         /\ calls' = <<Call(ApiOf(rt))>>
         /\ pc' = "api"
         /\ UNCHANGED <<resp, nresp, ppTokenCache>>
    ELSE /\ calls' = <<Call("oauth")>>
         /\ pc' = "oauth"
         /\ UNCHANGED <<resp, nresp, ppTokenCache, access>>

\* part_001:280-295 paypalAccessToken(): the cached token, or a new request
EPaypalAccessToken(rt) ==
    IF ppTokenCache.token # 0 /\ now < ppTokenCache.exp - Margin
    THEN /\ access' = ppTokenCache.token
         /\ calls' = <<Call(ApiOf(rt))>>
         /\ pc' = "api"
         /\ UNCHANGED <<resp, nresp, ppTokenCache>>
    ELSE /\ calls' = <<Call("oauth")>>
         /\ pc' = "oauth"
         /\ UNCHANGED <<resp, nresp, ppTokenCache, access>>

EClientToken ==
    /\ pc = "idle"
    /\ req' = NoReq
    /\ route' = "eTok"
    /\ EPaypalAccessToken("eTok")
    /\ KeepOrderState /\ UNCHANGED now

ECreateOrder ==
    /\ pc = "idle"
    /\ \E v \in BOOLEAN :
        /\ req' = [NoReq EXCEPT !.value = v]
        /\ route' = "eCo"
        /\ IF ~v
           THEN /\ Finish(Res(400, FALSE, "Missing amount value", "none"))
                /\ UNCHANGED <<calls, ppTokenCache, access>>
           ELSE EPaypalAccessToken("eCo")
    /\ KeepOrderState /\ UNCHANGED now

ECapture ==
    /\ pc = "idle"
    /\ \E v \in BOOLEAN :
        /\ req' = [NoReq EXCEPT !.paypalOrderId = v]
        /\ route' = "eCap"
        /\ IF ~v
           THEN /\ Finish(Res(400, FALSE, "Missing paypalOrderId", "none"))
                /\ UNCHANGED <<calls, ppTokenCache, access>>
           ELSE EPaypalAccessToken("eCap")
    /\ KeepOrderState /\ UNCHANGED now

\* expires_in of the OAuth reply, in units of 30 s; 0: absent
ExpiresSet == {0, 1, 2, 3}

\* part_001:296-305: the OAuth reply; a failed reply throws before the cache
\* is written
EOAuthReply ==
    /\ pc = "oauth" /\ route \in {"eTok", "eCo", "eCap"}
    /\ \/ /\ calls' = Replied("throw")
          /\ Finish(Res(500, FALSE, "e.message", "none"))
          /\ UNCHANGED <<access, ppTokenCache>>
       \/ /\ calls' = Replied("notOk")
          /\ Finish(Res(500, FALSE, "e.message", "none"))
          /\ UNCHANGED <<access, ppTokenCache>>
       \/ \E t \in 0..MaxToken, e \in ExpiresSet :
          /\ ppTokenCache' = [token |-> t,
                              exp |-> now + (IF e = 0 THEN DefaultTtl ELSE e)]
          /\ access' = t
          /\ calls' = Append(Replied("ok"), Call(ApiOf(route)))
          /\ pc' = "api"
          /\ UNCHANGED <<resp, nresp>>
    /\ KeepOrderState /\ UNCHANGED <<route, req, now>>

EClientTokenReply ==
    /\ pc = "api" /\ route = "eTok"
    /\ \/ /\ calls' = Replied("throw")
          /\ Finish(Res(500, FALSE, "e.message", "none"))
       \/ \E st \in HttpStatuses, hasToken \in BOOLEAN :
          /\ calls' = Replied(IF Ok(st) /\ hasToken THEN "ok" ELSE "notOk")
          /\ IF ~Ok(st) \/ ~hasToken
             THEN Finish(Res(400, FALSE, "Failed to generate client token", "none"))
             ELSE Finish(Res(200, TRUE, "", "none"))
    /\ KeepOrderState /\ UNCHANGED <<route, req, ppTokenCache, now, access>>

\* part_001:376-384: sendErr(res, r.status || 400, ...) when !r.ok || !j?.id
ECreateOrderReply ==
    /\ pc = "api" /\ route = "eCo"
    /\ \/ /\ calls' = Replied("throw")
          /\ Finish(Res(500, FALSE, "e.message", "none"))
       \/ \E st \in HttpStatuses, hasId \in BOOLEAN :
          /\ calls' = Replied(IF Ok(st) /\ hasId THEN "ok" ELSE "notOk")
          /\ IF ~Ok(st) \/ ~hasId
             THEN Finish(Res(st, FALSE, "PayPal create order failed", "none"))
             ELSE Finish(Res(200, TRUE, "", "none"))
    /\ KeepOrderState /\ UNCHANGED <<route, req, ppTokenCache, now, access>>

ECaptureReply ==
    /\ pc = "api" /\ route = "eCap"
    /\ \/ /\ calls' = Replied("throw")
          /\ Finish(Res(500, FALSE, "e.message", "none"))
       \/ \E st \in HttpStatuses, completed \in BOOLEAN :
          /\ calls' = Replied(IF Ok(st) /\ completed THEN "ok" ELSE "notOk")
          /\ IF ~Ok(st)
             THEN Finish(Res(400, FALSE, "PayPal capture failed", "none"))
             ELSE IF ~completed
             THEN Finish(Res(400, FALSE, "Unexpected PayPal status", "none"))
             ELSE Finish(Res(200, TRUE, "", "none"))
    /\ KeepOrderState /\ UNCHANGED <<route, req, ppTokenCache, now, access>>

\* GET /health, /healthz, /: a constant success body
Health ==
    /\ pc = "idle"
    /\ route' = "health"
    /\ Finish(Res(200, TRUE, "", "none"))
    /\ UNCHANGED <<req, calls, ppTokenCache, now, access>>
    /\ KeepOrderState

\* the clock, read by paypalAccessToken before and after its await
Tick ==
    /\ pc \in {"idle", "oauth"}
    /\ now < MaxTime
    /\ now' = now + 1
    /\ UNCHANGED <<pc, route, req, paidAmount, itemsTotalTarget, lines, input,
                   calls, resp, nresp, creds, ppTokenCache, access>>

NextPayPal ==
    \/ SClientToken
    \/ SCreateOrder
    \/ SCapture
    \/ SOAuthReply
    \/ SClientTokenReply
    \/ SCreateOrderReply
    \/ SCaptureReply
    \/ EClientToken
    \/ ECreateOrder
    \/ ECapture
    \/ EOAuthReply
    \/ EClientTokenReply
    \/ ECreateOrderReply
    \/ ECaptureReply
    \/ Health
    \/ Tick
    \/ Discard

SpecPayPal == Init /\ [][NextPayPal]_vars

Next ==
    \/ P0Receive
    \/ P0CaptureReply
    \/ P0CreateReply
    \/ P0CompleteReply
    \/ SAReceive
    \/ SACreateReply
    \/ SACompleteReply
    \/ SBReceive
    \/ SBCreateReply
    \/ SBCompleteReply
    \/ P1RReceive
    \/ P1RCreateReply
    \/ P1RCompleteReply
    \/ P1GReceive
    \/ P1GCreateReply
    \/ P1GCompleteReply
    \/ Discard

Spec == Init /\ [][Next]_vars


\* ================================================================== claims
OrderRoutes == {"p0", "sA", "sB", "p1R", "p1G"}
Issued(op) == \E i \in 1..Len(calls) : calls[i].op = op
Outcome(op, outs) == \E i \in 1..Len(calls) : calls[i].op = op /\ calls[i].out \in outs

\* the reconciling handler accepted the request: draftOrderCreate was issued
P0Accepted == route = "p0" /\ Issued("draftOrderCreate")

\* C1: for every request accepted by the reconciling handler with a captured
\* total > 0, the sum over the emitted line items of unit price x quantity
\* equals the captured total minus the shipping charge.
C1_SumInvariant ==
    (P0Accepted /\ paidAmount.v > 0)
        => SumSeq([i \in 1..Len(lines) |-> lines[i].unitPrice * lines[i].quantity])
             = paidAmount.v - ShipPrice(req.shipping_price)

\* C2: after the distribution loop the assigned lineAmount values sum to
\* itemsTarget exactly, whatever the number of items and the quantities.
C2_ResidualAbsorption ==
    P0Accepted
        => SumSeq([i \in 1..Len(lines) |-> lines[i].lineAmount])
             = paidAmount.v - ShipPrice(req.shipping_price)

\* C2 witness: three items were distributed and the last one took an amount
\* that is not its own rounded share, so a rounding residual was absorbed.
C2_Witness ==
    /\ P0Accepted
    /\ Len(lines) = 3
    /\ \A up \in BOOLEAN :
         lines[3].lineAmount #
            Round2(itemsTotalTarget * lines[3].quantity, TotalUnits(req.line_items), up)

\* C3: whenever the captured total the reconciling handler ends up with is
\* absent, non-numeric, zero or negative, it answers 400 INVALID_TOTAL_PAID
\* and issues no draftOrderCreate.
C3_InvalidTotalRejected ==
    (/\ route = "p0"
     /\ req.line_items # <<>>
     /\ pc \in {"create", "complete", "done"}
     /\ (paidAmount.k # "num" \/ paidAmount.v <= 0))
        => /\ pc = "done"
           /\ resp.status = 400
           /\ resp.error = "INVALID_TOTAL_PAID"
           /\ ~Issued("draftOrderCreate")

\* C4: whenever the subtotal check of the reconciling handler is reached (the
\* request has line items and a usable captured total) and capturedTotal -
\* shippingCharge < 0, it answers 400 NEGATIVE_ITEMS_TOTAL and issues no
\* draftOrderCreate.
C4_OversizedShippingRejected ==
    (/\ route = "p0"
     /\ req.line_items # <<>>
     /\ paidAmount.k = "num" /\ paidAmount.v # 0
     /\ paidAmount.v - ShipPrice(req.shipping_price) < 0)
        => /\ pc = "done"
           /\ resp.status = 400
           /\ resp.error = "NEGATIVE_ITEMS_TOTAL"
           /\ ~Issued("draftOrderCreate")

\* C4 witness: total 10.00 with shipping 15.00 was rejected.
C4_Witness ==
    /\ route = "p0" /\ pc = "done"
    /\ paidAmount = Num(1000) /\ req.shipping_price = Num(1500)
    /\ resp.error = "NEGATIVE_ITEMS_TOTAL"

CallerFaults ==
    {"NO_LINE_ITEMS", "INVALID_TOTAL_PAID", "NEGATIVE_ITEMS_TOTAL",
     "INVALID_QUANTITIES", "Invalid payload", "Missing line_items"}

\* C5: a request rejected with a caller-input fault is rejected before any
\* external call has been issued for it.
C5_FailFast ==
    (pc = "done" /\ route \in OrderRoutes /\ resp.status = 400
        /\ resp.error \in CallerFaults)
        => calls = <<>>

\* C6: in the reconciling handler draftOrderCreate is issued only once a valid
\* captured amount (numeric, > 0, >= shipping charge) is known and every line
\* item has its unit price, and a capture lookup precedes it.
C6_SubmitAfterValidAmount ==
    P0Accepted
        => /\ paidAmount.k = "num"
           /\ paidAmount.v > 0
           /\ paidAmount.v >= ShipPrice(req.shipping_price)
           /\ Len(lines) = Len(req.line_items)
           /\ \A i, j \in 1..Len(calls) :
                (calls[i].op = "captureLookup" /\ calls[j].op = "draftOrderCreate")
                    => i < j /\ calls[i].out # "pending"

\* C7: when the draft was created and the completion call fails (throws,
\* returns userErrors or returns no order), the request ends with ok:false
\* and the completion is the last external call of the request.
C7_PartialCompletion ==
    \A i \in 1..Len(calls) :
        (/\ route \in OrderRoutes
         /\ calls[i].op = "draftOrderComplete"
         /\ calls[i].out \in {"throw", "userErrors", "noOrder"})
            => pc = "done" /\ ~resp.ok /\ i = Len(calls)

\* a fault on the way of a request: a validation failure of the reconciler
\* contract, a thrown call, upstream userErrors, a failed capture lookup
ValidationFault ==
    \/ req.line_items = <<>>
    \/ route = "p0" /\ (paidAmount.k # "num" \/ paidAmount.v <= 0)
    \/ route = "p0" /\ paidAmount.k = "num"
         /\ paidAmount.v - ShipPrice(req.shipping_price) < 0
    \/ route = "p0" /\ TotalUnits(req.line_items) <= 0
    \/ route \in {"sA", "p1G"} /\ ~AddressComplete(req.address)
Fault ==
    \/ ValidationFault
    \/ \E i \in 1..Len(calls) : calls[i].out \in {"throw", "userErrors"}
    \/ Outcome("captureLookup", {"throw", "notOk"})

\* C8: a request answered after a fault on its way is answered with ok:false,
\* and a request is answered exactly once.
C8_FaultsSurfaced ==
    (pc = "done" /\ route \in OrderRoutes)
        => nresp = 1 /\ (Fault => ~resp.ok)

\* C9: ok:true is sent only when draft creation and completion both succeeded
\* and it carries an order with a defined id.
C9_SuccessCarriesOrder ==
    (pc = "done" /\ route \in OrderRoutes /\ resp.ok)
        => /\ Outcome("draftOrderCreate", {"ok"})
           /\ Outcome("draftOrderComplete", {"ok"})
           /\ resp.order = "order"

\* C10: every failure response carries HTTP status 400 or 500.
C10_FailureStatus ==
    (pc = "done" /\ ~resp.ok) => resp.status \in {400, 500}

\* the PayPal routes of part_001, which share ppTokenCache
CachedRoutes == {"eTok", "eCo", "eCap"}

Accepted == route \in OrderRoutes /\ Issued("draftOrderCreate")

\* C12: in every handler variant a successfully created order is marked as
\* paid: the completion call finalizes the draft with payment not pending.
C12_MarkedPaid ==
    (route \in OrderRoutes /\ pc = "done" /\ resp.ok)
        => \A i \in 1..Len(calls) :
              calls[i].op = "draftOrderComplete"
                 => calls[i].paymentPending \in {"false", "unset"}

\* C13: in every handler variant, when the shipping charge of an accepted
\* request is 0, the built order request contains no shipping line.
C13_ShippingSuppressed ==
    (Accepted /\ req.shipping_price = Num(0)) => input.shippingLine = Absent

\* C14: when the shipping charge of an accepted request is > 0, the built order
\* request contains a shipping line priced at that charge; it carries the
\* supplied label, or a generic default label when none was supplied.
C14_ShippingLinePresent ==
    (Accepted /\ req.shipping_price.k = "num" /\ req.shipping_price.v > 0)
        => /\ input.shippingLine = req.shipping_price
           /\ input.shippingTitle =
                 (IF req.shipping_label = "text" THEN "label" ELSE "default")

\* C18: in every handler variant, for a request whose address contains an
\* email, the built order request carries that email at the order level and
\* neither address sub-object contains an email field.
C18_EmailPlacement ==
    (Accepted /\ req.address = "fullEmail")
        => /\ input.email = "address"
           /\ ~input.addressEmail

\* C17: in the reconciling handler every item except the last is assigned
\* lineAmount = itemsTarget x quantity / totalQuantity rounded to the nearest
\* cent, and the last item is assigned itemsTarget minus the sum of the earlier
\* lineAmounts; quantities [1,3] with itemsTarget 10.01 give 2.50 and 7.51.
C17_ProportionalDistribution ==
    P0Accepted
        => LET n == Len(lines)
               totalQuantity == SumSeq([i \in 1..n |-> lines[i].quantity])
           IN  /\ \A i \in 1..(n - 1) :
                     2 * Abs(lines[i].lineAmount * totalQuantity
                               - itemsTotalTarget * lines[i].quantity)
                        <= totalQuantity
               /\ lines[n].lineAmount =
                     itemsTotalTarget
                        - SumSeq([i \in 1..(n - 1) |-> lines[i].lineAmount])
               /\ (req.line_items = <<1, 3>> /\ itemsTotalTarget = 1001)
                     => /\ lines[1].lineAmount = 250
                        /\ lines[2].lineAmount = 751

\* C17 witness: quantities [1,3] were distributed over an items target of
\* 10.01 as 2.50 and 7.51.
C17_Witness ==
    /\ P0Accepted
    /\ req.line_items = <<1, 3>>
    /\ itemsTotalTarget = 1001
    /\ lines[1].lineAmount = 250
    /\ lines[2].lineAmount = 751

\* C19: in every handler variant, within one request the completion call is
\* issued only after the creation call has returned without userErrors and
\* with a draft id, it is issued with exactly that id, and when creation fails
\* or returns userErrors no completion call is issued for that request.
C19_TwoPhaseOrdering ==
    route \in OrderRoutes
        => /\ \A j \in 1..Len(calls) :
                 calls[j].op = "draftOrderComplete"
                    => /\ j > 1
                       /\ calls[j - 1].op = "draftOrderCreate"
                       /\ calls[j - 1].out = "ok"
                       /\ calls[j - 1].id # 0
                       /\ calls[j].id = calls[j - 1].id
           /\ Outcome("draftOrderCreate", {"throw", "userErrors", "noDraft"})
                 => ~Issued("draftOrderComplete")

\* C19 witness: creation returned draft 2 and the completion call in flight
\* carries id 2.
C19_Witness ==
    /\ route \in OrderRoutes
    /\ pc = "complete"
    /\ Len(calls) >= 2
    /\ calls[Len(calls) - 1].op = "draftOrderCreate"
    /\ calls[Len(calls) - 1].id = 2
    /\ calls[Len(calls)].op = "draftOrderComplete"
    /\ calls[Len(calls)].id = 2

\* C20: for every request accepted by the reconciling handler, every emitted
\* line item has a non-negative lineAmount and a non-negative unit price, the
\* last item included, for any number of items and any quantities. Stated for
\* requests with a captured total > 0, a shipping charge between 0 and the
\* total, and quantities that are positive or omitted.
C20_NonNegativeLines ==
    (/\ P0Accepted
     /\ paidAmount.v > 0
     /\ ShipPrice(req.shipping_price) >= 0
     /\ ShipPrice(req.shipping_price) <= paidAmount.v
     /\ \A i \in 1..Len(req.line_items) : req.line_items[i] >= 0)
        => \A i \in 1..Len(lines) :
              lines[i].lineAmount >= 0 /\ lines[i].unitPrice >= 0

AllHinted == req.hints # <<>> /\ \A i \in 1..Len(req.hints) : req.hints[i].k = "num"
NoneHinted == req.hints # <<>> /\ \A i \in 1..Len(req.hints) : req.hints[i] = Absent

\* sum of hint x quantity, in tenths of a cent
\* the amounts of a request to the reconciling handler are within the data
\* model: captured total > 0 and 0 <= shipping charge <= captured total
ValidAmounts ==
    /\ paidAmount.k = "num" /\ paidAmount.v > 0
    /\ ShipPrice(req.shipping_price) >= 0
    /\ ShipPrice(req.shipping_price) <= paidAmount.v

HintedTotal ==
    SumSeq([i \in 1..Len(req.hints) |-> req.hints[i].v * Qty(req.line_items[i])])

\* C15: when every item carries a unit price hint and the sum of hint x
\* quantity is within 0.02 of itemsTarget, each emitted line's unit price
\* equals its hint rounded to 2 decimals (no proportional redistribution).
C15_HintPassthrough ==
    (/\ P0Accepted
     /\ ValidAmounts
     /\ AllHinted
     /\ Abs(HintedTotal - 10 * itemsTotalTarget) <= 20)
        => \A i \in 1..Len(lines) :
              2 * Abs(10 * lines[i].unitPrice - req.hints[i].v) <= 10

\* C15 as amended: the handlers that read a hint (unit_price in server.js:403,
\* price in part_001:67) emit every item that carries a numeric hint with the
\* hint rounded to 2 decimals, whatever the sum of the hints; the validating
\* handlers send a non-zero hint as it came; the reconciling handler reads no
\* hint and distributes the whole items target by quantity share.
C15_HintsEmittedAsSent ==
    Accepted
        => CASE route \in {"sB", "p1R"} ->
                   \A i \in 1..Len(lines) :
                      req.hints[i].k = "num"
                         => /\ lines[i].price.k = "num"
                            /\ lines[i].price.v % 10 = 0
                            /\ 2 * Abs(lines[i].price.v - req.hints[i].v) <= 10
             [] route \in {"sA", "p1G"} ->
                   \A i \in 1..Len(lines) :
                      (req.hints[i].k = "num" /\ req.hints[i].v # 0)
                         => lines[i].price = req.hints[i]
             [] OTHER ->
                   LET n == Len(lines)
                       units == SumSeq([i \in 1..n |-> lines[i].quantity])
                   IN  /\ \A i \in 1..(n - 1) :
                             2 * Abs(lines[i].lineAmount * units
                                       - itemsTotalTarget * lines[i].quantity)
                                <= units
                       /\ SumSeq([i \in 1..n |-> lines[i].lineAmount])
                             = itemsTotalTarget

\* C15 witness: the unit_price handler emitted the hints 2.504 and 7.00 as
\* 2.50 and 7.00.
C15_Witness ==
    /\ route = "sB" /\ Accepted
    /\ req.hints = <<Num(2504), Num(7000)>>
    /\ lines[1].price = Num(2500)
    /\ lines[2].price = Num(7000)

\* C16: when no item of a request carries a unit price hint, every emitted
\* line item carries its catalog reference and quantity and no explicit unit
\* price.
C16_NoHintNoPrice ==
    (Accepted /\ NoneHinted /\ (route = "p0" => ValidAmounts))
        => IF route = "p0" THEN FALSE
           ELSE \A i \in 1..Len(lines) : lines[i].price = Absent

\* C16 as amended: when no item carries a hint, the handlers other than the
\* reconciling handler emit every line with no explicit unit price; the
\* reconciling handler always emits, for every line, a unit price that is its
\* lineAmount divided by its quantity, to the nearest cent.
C16_NoPriceOutsideReconciling ==
    (Accepted /\ NoneHinted)
        => /\ Len(lines) = Len(req.line_items)
           /\ IF route = "p0"
              THEN \A i \in 1..Len(lines) :
                      2 * Abs(lines[i].unitPrice * lines[i].quantity
                                - lines[i].lineAmount)
                         <= Abs(lines[i].quantity)
              ELSE \A i \in 1..Len(lines) : lines[i].price = Absent

\* C16 witness: the REST handler emitted two lines without a price for a
\* cart without hints.
C16_Witness ==
    /\ route = "p1R" /\ Accepted
    /\ NoneHinted
    /\ Len(lines) = 2
    /\ lines[1].price = Absent /\ lines[2].price = Absent

\* C21: every line item emitted in an order request by any handler variant
\* has a quantity that is a positive integer: an omitted or falsy quantity
\* becomes 1, and a request with an item of negative quantity never reaches
\* order submission. For the reconciling handler, stated for requests whose
\* amounts are within the data model.
C21_PositiveQuantities ==
    (Accepted /\ (route = "p0" => ValidAmounts))
        => /\ Len(lines) = Len(req.line_items)
           /\ \A i \in 1..Len(lines) :
                 /\ lines[i].quantity >= 1
                 /\ req.line_items[i] = 0 => lines[i].quantity = 1
                 /\ req.line_items[i] >= 0

\* C22: after any sequence of paypalAccessToken calls, clock advances and
\* OAuth replies, a call returns the cached token without a network request
\* only if a token is cached and the current time is more than 30 seconds
\* before its recorded expiry; otherwise it requests a new token; a failed
\* OAuth reply throws and leaves the cache unchanged.
C22_TokenCache ==
    [][/\ (/\ pc = "idle" /\ route' \in CachedRoutes /\ calls' # <<>>
           /\ calls'[1].op # "oauth")
             => /\ ppTokenCache.token # 0
                /\ now + Margin < ppTokenCache.exp
                /\ access' = ppTokenCache.token
       /\ (/\ pc = "idle" /\ route' \in CachedRoutes /\ calls' # <<>>
           /\ (ppTokenCache.token = 0 \/ now + Margin >= ppTokenCache.exp))
             => /\ pc' = "oauth"
                /\ calls' = <<Call("oauth")>>
       /\ (/\ pc = "oauth" /\ route \in CachedRoutes
           /\ calls'[Len(calls)].out \in {"throw", "notOk"})
             => /\ ppTokenCache' = ppTokenCache
                /\ pc' = "done"
                /\ resp'.status = 500 /\ ~resp'.ok]_vars

\* C22 witness: a token was cached but is within the margin of its expiry; the
\* next request asked for a new one, the OAuth reply failed, and the request
\* ended with the cache as it was.
C22_Witness ==
    /\ route \in CachedRoutes
    /\ pc = "done"
    /\ Len(calls) = 1
    /\ calls[1].op = "oauth" /\ calls[1].out = "notOk"
    /\ ppTokenCache.token # 0
    /\ now + Margin >= ppTokenCache.exp

============================================================================
